---------------------------- MODULE Spec2Model ----------------------------
(***************************************************************************)
(* Random projections of similarity_search/src/randproj_util.cc:          *)
(*   initRandProj  builds an nDstDim x nSrcDim matrix of normal samples    *)
(*                 and, when bDoOrth, orthonormalises its rows in place    *)
(*                 (modified Gram-Schmidt);                                *)
(*   compProj      checks the matrix' shape and writes one dot product     *)
(*                 per row into the caller's destination buffer.           *)
(*                                                                         *)
(* Numbers.  dist_t is modelled exactly: a value is <<num, den, rad>>,     *)
(* standing for (num/den) * sqrt(rad) with den > 0, gcd(num, den) = 1 and  *)
(* rad square-free.  The rows the code computes from integer samples stay  *)
(* in this form.  den = 0 is a non-finite value: <<0,0,1>> is the NaN that *)
(* IEEE 0/0 yields, <<1,0,1>> and <<-1,0,1>> are the infinities.  Rounding *)
(* is not modelled, so "within tolerance" reads as equality.               *)
(*                                                                         *)
(* Indices i, j, k are the code's 0-based indices; row i of a matrix is    *)
(* element i + 1 of the sequence that models it.                           *)
(***************************************************************************)
EXTENDS Integers, Sequences, FiniteSets, TLC

\* ------------------------------------------------------------------ bounds
\* Largest nSrcDim / nDstDim a sequential caller passes.
MaxDim == 2
\* Dimensions and number of engine draws in the two-thread scenario.
ConcDim == 1
ConcDraws == 1

\* Samples normGen(engine) may return, and elements of a source vector.
Samples == {0, 1}
SrcVals == {0, 1}
\* Engine draws after which a sequential caller starts no further build.
MaxDraws == MaxDim * MaxDim + 1

Threads == {1, 2}
MainThread == CHOOSE t \in Threads : \A u \in Threads : t <= u

\* -------------------------------------------------------------- arithmetic
Zero == <<0, 1, 1>>
One == <<1, 1, 1>>
NaN == <<0, 0, 1>>
PosInf == <<1, 0, 1>>
NegInf == <<-1, 0, 1>>

IntVal(n) == <<n, 1, 1>>
IsFinite(v) == v[2] # 0
IsZero(v) == v[2] # 0 /\ v[1] = 0
Abs(n) == IF n < 0 THEN -n ELSE n
Sign(n) == IF n < 0 THEN -1 ELSE IF n = 0 THEN 0 ELSE 1

RECURSIVE Gcd(_, _)
Gcd(a, b) == IF b = 0 THEN a ELSE Gcd(b, a % b)

\* The canonical form of (n/d) * sqrt(r), d > 0, r square-free.
Canon(n, d, r) ==
  IF n = 0 THEN Zero
  ELSE LET g == Gcd(Abs(n), d) IN <<Sign(n) * (Abs(n) \div g), d \div g, r>>

\* The largest s with s * s dividing n, searched upwards from s.
RECURSIVE SquarePart(_, _, _)
SquarePart(n, s, best) ==
  IF s * s > n THEN best
  ELSE SquarePart(n, s + 1, IF n % (s * s) = 0 THEN s ELSE best)

VNeg(a) == <<-a[1], a[2], a[3]>>

VMul(a, b) ==
  IF ~IsFinite(a) \/ ~IsFinite(b) THEN NaN
  ELSE LET g == Gcd(a[3], b[3])
       IN Canon(a[1] * b[1] * g, a[2] * b[2], (a[3] \div g) * (b[3] \div g))

\* Sums arise between values of one radical only (the elements of one row,
\* or the products of two rows' elements).
VAdd(a, b) ==
  CASE ~IsFinite(a) \/ ~IsFinite(b) -> NaN
    [] IsZero(a) -> b
    [] IsZero(b) -> a
    [] a[3] = b[3] -> LET n == a[1] * b[2] + b[1] * a[2]
                      IN IF n = 0 THEN Zero ELSE Canon(n, a[2] * b[2], a[3])

VSub(a, b) == VAdd(a, VNeg(b))

\* a / b as IEEE division: 0/0 is NaN, x/0 an infinity.
VDiv(a, b) ==
  CASE ~IsFinite(a) \/ ~IsFinite(b) -> NaN
    [] IsZero(b) /\ IsZero(a) -> NaN
    [] IsZero(b) /\ a[1] > 0 -> PosInf
    [] IsZero(b) /\ a[1] < 0 -> NegInf
    [] OTHER -> VMul(a, Canon(Sign(b[1]) * b[2], Abs(b[1]) * b[3], b[3]))

\* sqrt of a non-negative rational n/d = sqrt(n * d) / d.
VSqrt(a) ==
  CASE ~IsFinite(a) -> NaN
    [] IsZero(a) -> Zero
    [] a[3] = 1 /\ a[1] > 0 ->
         LET p == a[1] * a[2]
             s == SquarePart(p, 1, 1)
         IN Canon(s, a[2], p \div (s * s))

\* ScalarProductSIMD(pVect1, pVect2, qty) of distcomp.h: the inner product
\* of the first qty elements.
RECURSIVE ScalarProduct(_, _, _)
ScalarProduct(a, b, qty) ==
  IF qty = 0 THEN Zero
  ELSE VAdd(ScalarProduct(a, b, qty - 1), VMul(a[qty], b[qty]))

\* A resize that appends but never truncates.
ResizeVec_GrowOnly(v, n, fill) ==
  [x \in 1..(IF Len(v) > n THEN Len(v) ELSE n) |->
     IF x <= Len(v) THEN v[x] ELSE fill]

\* std::vector::resize(n): truncates, or appends value-initialised elements.
ResizeVec(v, n, fill) ==
  [x \in 1..n |-> IF x <= Len(v) THEN v[x] ELSE fill]

\* Lines 53-54: divide every element of the row by the row's norm.
NormalizeRow(row, nSrcDim) ==
  LET normCoeff == VSqrt(ScalarProduct(row, row, nSrcDim))
  IN [n \in 1..Len(row) |-> IF n <= nSrcDim THEN VDiv(row[n], normCoeff) ELSE row[n]]

\* The component is added where it should be subtracted.
SubtractProj_Add(rowI, rowK, nSrcDim) ==
  LET coeff == ScalarProduct(rowI, rowK, nSrcDim)
  IN [n \in 1..Len(rowK) |->
        IF n <= nSrcDim THEN VAdd(rowK[n], VMul(coeff, rowI[n])) ELSE rowK[n]]

\* Lines 57 and 63: remove from rowK its component along the unit row rowI.
SubtractProj(rowI, rowK, nSrcDim) ==
  LET coeff == ScalarProduct(rowI, rowK, nSrcDim)
  IN [n \in 1..Len(rowK) |->
        IF n <= nSrcDim THEN VSub(rowK[n], VMul(coeff, rowI[n])) ELSE rowK[n]]

\* The inner loop starts at row i itself.
FirstSubRow_Self(i) == i

\* Line 56: the first row the component of row i is subtracted from.
FirstSubRow(i) == i + 1

\* The engine is constructed and seeded by every call.
StaticInit_EveryCall(e) == [seeds |-> e.seeds + 1, pos |-> 0]

\* Lines 33-35: the function-local statics are constructed by the first call
\* only; the engine is seeded from random_device there.
StaticInit(e) ==
  IF e.seeds = 0 THEN [seeds |-> 1, pos |-> 0] ELSE e

\* ------------------------------------------------------------------- state
VARIABLES
  engine,   \* the static mt19937: times seeded, samples drawn since
  mats,     \* mats[m]: the projection matrix thread m owns and builds
  pc,       \* pc[t]: where thread t is
  fr,       \* fr[t]: arguments and locals of t's current (or last) call
  dst,      \* dst[t]: the destination buffer of t's project call
  hist,     \* hist[t]: history of t's current build (engine position at the
            \* call, the matrix as drawn, the row operations so far)
  halted    \* the process has exited through LOG(LIB_FATAL)

vars == <<engine, mats, pc, fr, dst, hist, halted>>

NoFrame ==
  [op |-> "none", m |-> 0, nSrcDim |-> 0, nDstDim |-> 0, bDoOrth |-> FALSE,
   src |-> <<>>, i |-> 0, j |-> 0, k |-> 0, eng |-> 0]
NoHist == [pos0 |-> 0, raw |-> <<>>, ops |-> <<>>]

\* What a matrix may hold before a build: nothing, one row, two rows of
\* differing lengths.
InitMats ==
  { <<>>,
    << <<One>> >>,
    << <<One, Zero>>, <<One>> >> }

Init ==
  /\ engine = [seeds |-> 0, pos |-> 0]
  /\ \E m0 \in InitMats :
       mats = [t \in Threads |-> IF t = MainThread THEN m0 ELSE <<>>]
  /\ pc = [t \in Threads |-> "idle"]
  /\ fr = [t \in Threads |-> NoFrame]
  /\ dst = [t \in Threads |-> <<>>]
  /\ hist = [t \in Threads |-> NoHist]
  /\ halted = FALSE

\* -------------------------------------------------------------- initRandProj
\* Lines 29-38: entry, static initialisation, projMatr.resize(nDstDim).
CallBuild(t, s, d, o, cap) ==
  /\ ~halted
  /\ pc[t] = "idle"
  /\ engine.pos + s * d <= cap
  /\ \A u \in Threads : ~(pc[u] = "proj" /\ fr[u].m = t)
  /\ engine' = StaticInit(engine)
  /\ mats' = [mats EXCEPT ![t] = ResizeVec(@, d, <<>>)]
  /\ fr' = [fr EXCEPT ![t] = [NoFrame EXCEPT !.op = "build", !.m = t,
                                !.nSrcDim = s, !.nDstDim = d, !.bDoOrth = o]]
  /\ hist' = [hist EXCEPT ![t] = [NoHist EXCEPT !.pos0 = engine'.pos]]
  /\ pc' = [pc EXCEPT ![t] = "gen_row"]
  /\ UNCHANGED <<dst, halted>>

\* Lines 39-40: the outer generation loop; projMatr[i].resize(nSrcDim).
GenRow(t) ==
  /\ ~halted
  /\ pc[t] = "gen_row"
  /\ IF fr[t].i < fr[t].nDstDim
       THEN /\ mats' = [mats EXCEPT ![t][fr[t].i + 1] =
                          ResizeVec(@, fr[t].nSrcDim, Zero)]
            /\ fr' = [fr EXCEPT ![t].j = 0]
            /\ pc' = [pc EXCEPT ![t] = "gen_elem"]
            /\ hist' = hist
       ELSE /\ fr' = [fr EXCEPT ![t].i = 0]
            /\ pc' = [pc EXCEPT ![t] = "orth"]
            /\ hist' = [hist EXCEPT ![t].raw = mats[t]]
            /\ mats' = mats
  /\ UNCHANGED <<engine, dst, halted>>

\* Lines 41-42: the inner loop; normGen(engine) starts by reading the engine.
GenElem(t) ==
  /\ ~halted
  /\ pc[t] = "gen_elem"
  /\ IF fr[t].j < fr[t].nSrcDim
       THEN /\ fr' = [fr EXCEPT ![t].eng = engine.pos]
            /\ pc' = [pc EXCEPT ![t] = "draw"]
       ELSE /\ fr' = [fr EXCEPT ![t].i = @ + 1]
            /\ pc' = [pc EXCEPT ![t] = "gen_row"]
  /\ UNCHANGED <<engine, mats, dst, hist, halted>>

\* Line 42: normGen(engine) writes the advanced engine back and returns the
\* sample, which is stored in projMatr[i][j].
Draw(t) ==
  /\ ~halted
  /\ pc[t] = "draw"
  /\ \E x \in Samples :
       mats' = [mats EXCEPT ![t][fr[t].i + 1][fr[t].j + 1] = IntVal(x)]
  /\ engine' = [engine EXCEPT !.pos = fr[t].eng + 1]
  /\ fr' = [fr EXCEPT ![t].j = @ + 1]
  /\ pc' = [pc EXCEPT ![t] = "gen_elem"]
  /\ UNCHANGED <<dst, hist, halted>>

\* Lines 50-55 and 66-67: the loop over the rows; with bDoOrth row i is
\* normalised, without it the iteration does nothing.
OrthRow(t) ==
  /\ ~halted
  /\ pc[t] = "orth"
  /\ IF fr[t].i >= fr[t].nDstDim
       THEN /\ pc' = [pc EXCEPT ![t] = "done"]
            /\ UNCHANGED <<mats, fr, hist>>
       ELSE IF ~fr[t].bDoOrth
       THEN /\ fr' = [fr EXCEPT ![t].i = @ + 1]
            /\ UNCHANGED <<mats, pc, hist>>
       ELSE /\ mats' = [mats EXCEPT ![t][fr[t].i + 1] =
                          NormalizeRow(@, fr[t].nSrcDim)]
            /\ fr' = [fr EXCEPT ![t].k = FirstSubRow(fr[t].i)]
            /\ hist' = [hist EXCEPT ![t].ops =
                          Append(@, <<"norm", fr[t].i, fr[t].i>>)]
            /\ pc' = [pc EXCEPT ![t] = "sub"]
  /\ UNCHANGED <<engine, dst, halted>>

\* Lines 56-64: the loop over the rows k > i.
OrthSub(t) ==
  /\ ~halted
  /\ pc[t] = "sub"
  /\ IF fr[t].k < fr[t].nDstDim
       THEN /\ mats' = [mats EXCEPT ![t][fr[t].k + 1] =
                          SubtractProj(mats[t][fr[t].i + 1], @, fr[t].nSrcDim)]
            /\ fr' = [fr EXCEPT ![t].k = @ + 1]
            /\ hist' = [hist EXCEPT ![t].ops =
                          Append(@, <<"sub", fr[t].i, fr[t].k>>)]
            /\ pc' = pc
       ELSE /\ fr' = [fr EXCEPT ![t].i = @ + 1]
            /\ pc' = [pc EXCEPT ![t] = "orth"]
            /\ UNCHANGED <<mats, hist>>
  /\ UNCHANGED <<engine, dst, halted>>

\* ------------------------------------------------------------------ compProj
\* LOG(LIB_FATAL) of logging.h: the message is reported and the process exits.
Fatal(t) ==
  /\ pc' = [pc EXCEPT ![t] = "fatal"]
  /\ halted' = TRUE

\* What the caller's destination buffer holds before a call: a value no dot
\* product of the modelled matrices and vectors yields, so that an element
\* compProj has not written is recognisable.
DstOld == PosInf

\* Line 79.
MatrNonEmpty(matr) == Len(matr) # 0

\* The check rejects only a matrix of too few rows.
RowCountOk_AtLeast(matr, nDstDim) == Len(matr) >= nDstDim

\* Line 80.
RowCountOk(matr, nDstDim) == Len(matr) = nDstDim

\* Line 86.
RowLenOk(row, nSrcDim) == Len(row) = nSrcDim

\* The last element of the row is left out of the product.
ProjElem_Short(row, src, nSrcDim) == ScalarProduct(row, src, nSrcDim - 1)

\* Line 92: the value stored in pDstVect[i].
ProjElem(row, src, nSrcDim) == ScalarProduct(row, src, nSrcDim)

\* Source vectors of nSrcDim elements.
SrcVectors(s) == [1..s -> {IntVal(x) : x \in SrcVals}]

\* Lines 76-84: entry and the two checks made before the loop.  The caller
\* passes a matrix m nobody is building, a source vector of nSrcDim elements
\* and a buffer of nDstDim elements.
CallProj(t, m, s, d, src) ==
  /\ ~halted
  /\ pc[t] = "idle"
  /\ pc[m] = "idle"
  /\ fr' = [fr EXCEPT ![t] = [NoFrame EXCEPT !.op = "project", !.m = m,
                                !.nSrcDim = s, !.nDstDim = d, !.src = src]]
  /\ dst' = [dst EXCEPT ![t] = [x \in 1..d |-> DstOld]]
  /\ IF MatrNonEmpty(mats[m]) /\ RowCountOk(mats[m], d)
       THEN /\ pc' = [pc EXCEPT ![t] = "proj"]
            /\ halted' = halted
       ELSE Fatal(t)
  /\ UNCHANGED <<engine, mats, hist>>

\* The element is stored before the row's length is checked; for a row that
\* fails the check the value read past its end is indeterminate (NaN here).
ProjStep_StoreFirst(t) ==
  /\ ~halted
  /\ pc[t] = "proj"
  /\ IF fr[t].i >= fr[t].nDstDim
       THEN /\ pc' = [pc EXCEPT ![t] = "done"]
            /\ UNCHANGED <<fr, dst, halted>>
       ELSE IF ~RowLenOk(mats[fr[t].m][fr[t].i + 1], fr[t].nSrcDim)
       THEN /\ Fatal(t)
            /\ dst' = [dst EXCEPT ![t][fr[t].i + 1] = NaN]
            /\ fr' = fr
       ELSE /\ dst' = [dst EXCEPT ![t][fr[t].i + 1] =
                         ProjElem(mats[fr[t].m][fr[t].i + 1], fr[t].src,
                                  fr[t].nSrcDim)]
            /\ fr' = [fr EXCEPT ![t].i = @ + 1]
            /\ UNCHANGED <<pc, halted>>
  /\ UNCHANGED <<engine, mats, hist>>

\* The row is normalised in place before the product is taken.
ProjStep_Normalizes(t) ==
  /\ ~halted
  /\ pc[t] = "proj"
  /\ IF fr[t].i >= fr[t].nDstDim
       THEN /\ pc' = [pc EXCEPT ![t] = "done"]
            /\ UNCHANGED <<fr, dst, halted, mats>>
       ELSE IF ~RowLenOk(mats[fr[t].m][fr[t].i + 1], fr[t].nSrcDim)
       THEN /\ Fatal(t)
            /\ UNCHANGED <<fr, dst, mats>>
       ELSE /\ mats' = [mats EXCEPT ![fr[t].m][fr[t].i + 1] =
                          NormalizeRow(@, fr[t].nSrcDim)]
            /\ dst' = [dst EXCEPT ![t][fr[t].i + 1] =
                         ProjElem(mats'[fr[t].m][fr[t].i + 1], fr[t].src,
                                  fr[t].nSrcDim)]
            /\ fr' = [fr EXCEPT ![t].i = @ + 1]
            /\ UNCHANGED <<pc, halted>>
  /\ UNCHANGED <<engine, hist>>

\* Lines 85-94: one iteration of the loop over the rows, or the return.
ProjStep(t) ==
  /\ ~halted
  /\ pc[t] = "proj"
  /\ IF fr[t].i >= fr[t].nDstDim
       THEN /\ pc' = [pc EXCEPT ![t] = "done"]
            /\ UNCHANGED <<fr, dst, halted>>
       ELSE IF ~RowLenOk(mats[fr[t].m][fr[t].i + 1], fr[t].nSrcDim)
       THEN /\ Fatal(t)
            /\ UNCHANGED <<fr, dst>>
       ELSE /\ dst' = [dst EXCEPT ![t][fr[t].i + 1] =
                         ProjElem(mats[fr[t].m][fr[t].i + 1], fr[t].src,
                                  fr[t].nSrcDim)]
            /\ fr' = [fr EXCEPT ![t].i = @ + 1]
            /\ UNCHANGED <<pc, halted>>
  /\ UNCHANGED <<engine, mats, hist>>

\* The call has returned (pc = "done": its arguments, locals and buffer are
\* still in place); the caller disposes of them and is free to call again.
Return(t) ==
  /\ ~halted
  /\ pc[t] = "done"
  /\ pc' = [pc EXCEPT ![t] = "idle"]
  /\ fr' = [fr EXCEPT ![t] = NoFrame]
  /\ dst' = [dst EXCEPT ![t] = <<>>]
  /\ hist' = [hist EXCEPT ![t] = NoHist]
  /\ UNCHANGED <<engine, mats, halted>>

\* ---------------------------------------------------------- specifications
\* One step of thread t, whose calls pass dimensions up to D and start no
\* build once cap samples have been drawn.
Step(t, D, cap) ==
  \/ \E s \in 1..D, d \in 1..D, o \in BOOLEAN : CallBuild(t, s, d, o, cap)
  \/ GenRow(t)
  \/ GenElem(t)
  \/ Draw(t)
  \/ OrthRow(t)
  \/ OrthSub(t)
  \/ \E m \in Threads, s \in 1..D, d \in 0..D :
       \E src \in SrcVectors(s) : CallProj(t, m, s, d, src)
  \/ ProjStep(t)
  \/ Return(t)

\* A single caller: builds and projections one after the other.
Next == Step(MainThread, MaxDim, MaxDraws)

Spec == Init /\ [][Next]_vars

\* Two threads calling initRandProj and compProj without synchronisation.
InitConc ==
  /\ engine = [seeds |-> 0, pos |-> 0]
  /\ mats = [t \in Threads |-> <<>>]
  /\ pc = [t \in Threads |-> "idle"]
  /\ fr = [t \in Threads |-> NoFrame]
  /\ dst = [t \in Threads |-> <<>>]
  /\ hist = [t \in Threads |-> NoHist]
  /\ halted = FALSE

NextConc == \E t \in Threads : Step(t, ConcDim, ConcDraws)

SpecConc == InitConc /\ [][NextConc]_vars

\* ------------------------------------------------------------------ claims
BuildDone(t) == pc[t] = "done" /\ fr[t].op = "build"
ProjDone(t) == pc[t] = "done" /\ fr[t].op = "project"

\* The shape compProj requires of its matrix.
ShapeOk(matr, s, d) ==
  /\ Len(matr) # 0
  /\ Len(matr) = d
  /\ \A r \in 1..Len(matr) : Len(matr[r]) = s

\* C1: when a build returns, whatever the output matrix held before, the
\* matrix has exactly nDstDim rows and every row exactly nSrcDim elements.
C1_BuildShape ==
  \A t \in Threads :
    BuildDone(t) =>
      /\ Len(mats[t]) = fr[t].nDstDim
      /\ \A r \in 1..Len(mats[t]) : Len(mats[t][r]) = fr[t].nSrcDim

\* The first build, of a 1 x 2 matrix, has returned (from a matrix that was
\* empty, or had one row of one element, or two rows).
C1_Witness ==
  BuildDone(MainThread) /\ fr[MainThread].nDstDim = 1
    /\ fr[MainThread].nSrcDim = 2 /\ hist[MainThread].pos0 = 0

\* C2: when a build without orthonormalisation returns, every row has unit
\* Euclidean norm.
C2_UnitNormWithoutOrth ==
  \A t \in Threads :
    (BuildDone(t) /\ ~fr[t].bDoOrth) =>
      \A r \in 1..Len(mats[t]) :
        ScalarProduct(mats[t][r], mats[t][r], fr[t].nSrcDim) = One

\* C3: a project call on a matrix that is empty, or whose row count differs
\* from nDstDim, or that has a row whose length differs from nSrcDim, never
\* completes: it does not get past the first offending row, and where it
\* fails the process has halted.
C3_FatalOnBadShape ==
  \A t \in Threads :
    (fr[t].op = "project"
       /\ ~ShapeOk(mats[fr[t].m], fr[t].nSrcDim, fr[t].nDstDim)) =>
      /\ pc[t] \in {"proj", "fatal"}
      /\ pc[t] = "fatal" => halted
      /\ pc[t] = "proj" =>
           /\ fr[t].i < fr[t].nDstDim
           /\ \A r \in 1..fr[t].i : Len(mats[fr[t].m][r]) = fr[t].nSrcDim

\* A project call has halted on a row of the wrong length, in a matrix of
\* the right number of rows.
C3_Witness ==
  /\ pc[MainThread] = "fatal"
  /\ halted
  /\ fr[MainThread].op = "project"
  /\ Len(mats[fr[MainThread].m]) = fr[MainThread].nDstDim
  /\ fr[MainThread].nDstDim > 0

\* C4 as stated: when project fails a shape check, no element of the
\* destination buffer has been written.
C4_NoWriteOnFailure ==
  \A t \in Threads :
    pc[t] = "fatal" => \A x \in 1..Len(dst[t]) : dst[t][x] = DstOld

\* C4 as amended: when project fails the empty-matrix or the row-count check
\* nothing has been written; when it fails the row-length check at row i,
\* elements 0..i-1 hold their dot products and elements i.. are untouched.
C4_WritesBelowFailingRow ==
  \A t \in Threads :
    pc[t] = "fatal" =>
      /\ ~(MatrNonEmpty(mats[fr[t].m]) /\ RowCountOk(mats[fr[t].m], fr[t].nDstDim))
           => fr[t].i = 0
      /\ \A x \in 1..Len(dst[t]) :
           IF x <= fr[t].i
             THEN dst[t][x] =
                    ScalarProduct(mats[fr[t].m][x], fr[t].src, fr[t].nSrcDim)
             ELSE dst[t][x] = DstOld

\* A project call has failed at a row after the first.
C4_Witness ==
  pc[MainThread] = "fatal" /\ fr[MainThread].i > 0

\* C5: a project call on a matrix of nDstDim >= 1 rows of nSrcDim elements
\* does not fail, and when it returns every destination element i holds
\* dot(matrix.row[i], sourceVector); none keeps its old value.
C5_ProjectionCorrect ==
  \A t \in Threads :
    (fr[t].op = "project"
       /\ ShapeOk(mats[fr[t].m], fr[t].nSrcDim, fr[t].nDstDim)) =>
      /\ pc[t] # "fatal"
      /\ pc[t] = "done" =>
           /\ Len(dst[t]) = fr[t].nDstDim
           /\ \A x \in 1..fr[t].nDstDim :
                /\ dst[t][x] =
                     ScalarProduct(mats[fr[t].m][x], fr[t].src, fr[t].nSrcDim)
                /\ dst[t][x] # DstOld

\* A projection onto two dimensions has returned two different values.
C5_Witness ==
  /\ ProjDone(MainThread)
  /\ fr[MainThread].nDstDim = 2
  /\ dst[MainThread][1] # dst[MainThread][2]
  /\ ShapeOk(mats[fr[MainThread].m], fr[MainThread].nSrcDim, 2)

\* Rows of unit norm, pairwise orthogonal.
Orthonormal(matr, s) ==
  \A i \in 1..Len(matr), k \in 1..Len(matr) :
    ScalarProduct(matr[i], matr[k], s) = (IF i = k THEN One ELSE Zero)

\* The determinant of a square integer matrix (expansion along row 1).
RECURSIVE Det(_)
Det(a) ==
  IF Len(a) = 0 THEN 1
  ELSE LET n == Len(a)
           Minor(c) == [r \in 1..(n - 1) |->
                          [x \in 1..(n - 1) |->
                             a[r + 1][IF x < c THEN x ELSE x + 1]]]
           RECURSIVE Sum(_)
           Sum(c) == IF c = 0 THEN 0
                     ELSE Sum(c - 1)
                          + (IF c % 2 = 1 THEN 1 ELSE -1) * a[1][c] * Det(Minor(c))
       IN Sum(n)

RECURSIVE IntDot(_, _, _)
IntDot(a, b, n) ==
  IF n = 0 THEN 0 ELSE IntDot(a, b, n - 1) + a[n][1] * b[n][1]

\* The rows of a matrix of integer samples are linearly independent: their
\* Gram matrix is regular.
Independent(raw, s) ==
  Det([i \in 1..Len(raw) |-> [k \in 1..Len(raw) |-> IntDot(raw[i], raw[k], s)]]) # 0

\* C6 as stated: every matrix built with orthonormalisation, for any
\* nSrcDim >= 1 and nDstDim >= 1, has orthonormal rows.
C6_Orthonormal ==
  \A t \in Threads :
    (BuildDone(t) /\ fr[t].bDoOrth) => Orthonormal(mats[t], fr[t].nSrcDim)

\* C6 as amended: a matrix built with orthonormalisation from linearly
\* independent drawn rows (so nDstDim <= nSrcDim) has orthonormal rows.
C6_OrthonormalIfIndependent ==
  \A t \in Threads :
    (BuildDone(t) /\ fr[t].bDoOrth
       /\ Independent(hist[t].raw, fr[t].nSrcDim)) =>
      /\ fr[t].nDstDim <= fr[t].nSrcDim
      /\ Orthonormal(mats[t], fr[t].nSrcDim)

\* Two independent drawn rows that were not orthogonal have been
\* orthonormalised.
C6_Witness ==
  /\ BuildDone(MainThread)
  /\ fr[MainThread].bDoOrth
  /\ fr[MainThread].nDstDim >= 2
  /\ Independent(hist[MainThread].raw, fr[MainThread].nSrcDim)
  /\ IntDot(hist[MainThread].raw[1], hist[MainThread].raw[2],
            fr[MainThread].nSrcDim) # 0

\* What thread t itself holds: its position, frame and buffer.
Own(t) == <<pc[t], fr[t], dst[t]>>

\* Thread t takes a step of compProj: it enters it, or moves inside it.
ProjMoves(t) ==
  \/ pc[t] = "idle" /\ fr'[t].op = "project"
  \/ pc[t] = "proj" /\ Own(t)' # Own(t)

BuildPcs == {"gen_row", "gen_elem", "draw", "orth", "sub"}

\* C7: a step of project, whatever the other threads are doing, changes no
\* matrix, not the source vector and not the engine; it writes at most the
\* one element destVector[i], i < nDstDim, of its own buffer.  A matrix
\* changes only in a step of a build by its owner.
C7_ProjectWritesOnlyDst ==
  [][ /\ \A t \in Threads :
           ProjMoves(t) =>
             /\ mats' = mats
             /\ engine' = engine
             /\ \A u \in Threads \ {t} : Own(u)' = Own(u)
             /\ pc[t] = "proj" =>
                  /\ fr'[t].src = fr[t].src
                  /\ fr'[t].m = fr[t].m
                  /\ Len(dst'[t]) = fr[t].nDstDim
                  /\ \A x \in 1..Len(dst[t]) :
                       dst'[t][x] # dst[t][x] =>
                         x = fr[t].i + 1 /\ fr[t].i < fr[t].nDstDim
      /\ \A m \in Threads :
           mats'[m] # mats[m] =>
             pc'[m] \in BuildPcs /\ fr'[m].op = "build" ]_vars

\* Both threads are inside project on the same built matrix, each having
\* written an element.
C7_Witness ==
  \E t \in Threads, u \in Threads :
    /\ t # u
    /\ pc[t] = "proj" /\ pc[u] = "proj"
    /\ fr[t].m = fr[u].m
    /\ fr[t].i > 0 /\ fr[u].i > 0
    /\ engine.seeds > 0

\* Position in the log of row operations of the entry e (0 when absent).
OpPos(ops, e) ==
  IF \E p \in 1..Len(ops) : ops[p] = e
    THEN CHOOSE p \in 1..Len(ops) : ops[p] = e
    ELSE 0
OpCount(ops, e) == Cardinality({p \in 1..Len(ops) : ops[p] = e})

\* C8: in a build with orthonormalisation every row is normalised exactly
\* once, in increasing index order; the component along row i is subtracted
\* from every row k > i exactly once, after row i and before row k is
\* normalised; nothing else is done to a row.
C8_RowOperationOrder ==
  \A t \in Threads :
    (BuildDone(t) /\ fr[t].bDoOrth) =>
      LET ops == hist[t].ops
          d == fr[t].nDstDim
          NormPos(r) == OpPos(ops, <<"norm", r, r>>)
      IN /\ \A r \in 0..(d - 1) : OpCount(ops, <<"norm", r, r>>) = 1
         /\ \A r \in 0..(d - 1), q \in 0..(d - 1) :
              r < q => NormPos(r) < NormPos(q)
         /\ \A i \in 0..(d - 1), k \in 0..(d - 1) :
              i < k =>
                /\ OpCount(ops, <<"sub", i, k>>) = 1
                /\ NormPos(i) < OpPos(ops, <<"sub", i, k>>)
                /\ OpPos(ops, <<"sub", i, k>>) < NormPos(k)
         /\ Len(ops) = d + (d * (d - 1)) \div 2

\* An orthonormalising build of at least two rows has returned.
C8_Witness ==
  /\ BuildDone(MainThread)
  /\ fr[MainThread].bDoOrth
  /\ fr[MainThread].nDstDim >= 2
  /\ Len(hist[MainThread].ops) >= 3

\* C9: no two build calls are drawing from the shared engine at the same
\* time.
C9_NoConcurrentDraw ==
  \A t \in Threads, u \in Threads :
    t # u => ~(pc[t] = "draw" /\ pc[u] = "draw")

\* C10: across a sequence of build calls the engine is seeded exactly once,
\* by the first build, and never again; a build draws nDstDim * nSrcDim
\* samples, starting where the previous build left the engine; project and
\* the caller between calls leave the engine alone.
C10_EngineUse ==
  /\ [](/\ engine.seeds <= 1
        /\ \A t \in Threads :
             /\ fr[t].op = "build" => engine.seeds = 1
             /\ pc[t] \in {"gen_elem", "draw"} =>
                  engine.pos = hist[t].pos0 + fr[t].i * fr[t].nSrcDim + fr[t].j
             /\ BuildDone(t) =>
                  engine.pos = hist[t].pos0 + fr[t].nDstDim * fr[t].nSrcDim)
  /\ [][ /\ engine.seeds = 1 => engine'.seeds = 1
         /\ engine.seeds = 1 /\ engine' # engine =>
              /\ engine'.pos = engine.pos + 1
              /\ \E t \in Threads : pc[t] = "draw" /\ pc'[t] = "gen_elem"
         /\ \A t \in Threads :
              pc[t] = "idle" /\ pc'[t] = "gen_row" /\ engine.seeds = 1 =>
                engine' = engine /\ hist'[t].pos0 = engine.pos ]_vars

\* A second build has returned.
C10_Witness ==
  /\ BuildDone(MainThread)
  /\ hist[MainThread].pos0 > 0
  /\ engine.pos = hist[MainThread].pos0
                    + fr[MainThread].nDstDim * fr[MainThread].nSrcDim
=============================================================================
